---- MODULE Spec2Model ----
(***************************************************************************)
(* Model of rusty-pic: the Vite plugin (vite-plugin/index.ts) that         *)
(* compresses the image assets of a bundle in generateBundle, and the      *)
(* budget search of the RustyPic wrapper (lib/rusty-pic.ts).               *)
(*                                                                         *)
(* Strings (file names, chunk code, text sources) are sequences of tokens: *)
(* a token is a piece of text that the model never splits ("png", ".",     *)
(* "a").  Bytes are records: the identity of the content, its length and   *)
(* its encoding.  The pixel codec is an opaque capability: given bytes and *)
(* options it returns bytes of any length, or fails.                       *)
(***************************************************************************)
EXTENDS Integers, Sequences, FiniteSets, TLC

VARIABLES
    cfg,             \* the options captured by rustyPicPlugin(options)
    isDev,           \* let isDev, set by configResolved
    phase,           \* where the host is in the build lifecycle
    builds,          \* builds started on this plugin instance
    bundle,          \* the bundle handed to generateBundle (Object.entries order)
    bundle0,         \* history: the bundle as generateBundle received it
    idx,             \* position of generateBundle's loop over the entries
    renameMap,       \* const renameMap of the running generateBundle
    cache,           \* the cache directory: path -> file content
    processedFiles,  \* const processedFiles of the plugin instance
    manifestFile,    \* the manifest file this build wrote (or NoFile)
    manifestWrites,  \* history: manifests written in the current build
    outcome,         \* history: what happened to each entry in this build
    calls,           \* history: rustyPic.compress calls of this build
    produced,        \* history: path -> data of the compression first cached there
    prev,            \* history: what the build before did with which content
    rewrites,        \* history: rewrite passes run in the current build
    initCalls,       \* history: rustyPic.init() calls of buildStart in this build
    ioErrors,        \* history: the file operations that failed in this build
    sc,              \* a run of RustyPic.smartCompress
    rp,              \* a RustyPic instance: initialized, wasmModule
    tasks,           \* the init and compress calls running on rp
    options,         \* the options object given to rustyPicPlugin, destructured
    wp,              \* a compilation handled by RustyPicWebpackPlugin
    cb,              \* a run of RustyPic.compressBatch
    nc,              \* a call of compress of rusty-pic.js and its caller's gate
    mb               \* the memory bank and the calls of a MemoryAgent

vars == <<cfg, isDev, phase, builds, bundle, bundle0, idx, renameMap, cache,
          processedFiles, manifestFile, manifestWrites, outcome, calls,
          produced, prev, rewrites, initCalls, ioErrors, sc, rp, tasks,
          options, wp, cb, nc, mb>>

pluginVars == <<cfg, isDev, phase, builds, bundle, bundle0, idx, renameMap,
                cache, processedFiles, manifestFile, manifestWrites, outcome,
                calls, produced, prev, rewrites, initCalls, ioErrors, options>>

backendVars == <<rp, tasks>>

libVars == <<cb, nc, mb>>

----------------------------------------------------------------------------
(* Bounds of the model. *)

\* builds run on one plugin instance
MaxBuilds == 2
\* byte length of an original image asset
SrcLen == 1

----------------------------------------------------------------------------
(* Strings as token sequences. *)

\* String.prototype.toLowerCase on one token
ToLowerCase(t) ==
    CASE t = "PNG" -> "png"
      [] t = "JPG" -> "jpg"
      [] OTHER -> t

\* s has p as a substring starting at position i
MatchAt(s, p, i) ==
    /\ i + Len(p) - 1 <= Len(s)
    /\ \A k \in 1..Len(p) : s[i + k - 1] = p[k]

\* String.prototype.includes
Includes(s, p) == \E i \in 1..Len(s) : MatchAt(s, p, i)

\* s.split(from).join(to), for a non-empty from: the leftmost matches,
\* left to right, not overlapping, each replaced by to
RECURSIVE SplitJoinFrom(_, _, _, _)
SplitJoinFrom(s, from, to, i) ==
    IF i > Len(s) THEN <<>>
    ELSE IF MatchAt(s, from, i)
         THEN to \o SplitJoinFrom(s, from, to, i + Len(from))
         ELSE <<s[i]>> \o SplitJoinFrom(s, from, to, i + 1)

SplitJoin(s, from, to) == SplitJoinFrom(s, from, to, 1)

\* for (const { from, to } of renameMap) code = code.split(from).join(to)
RECURSIVE ApplyRenames(_, _, _)
ApplyRenames(s, map, k) ==
    IF k > Len(map) THEN s
    ELSE ApplyRenames(SplitJoin(s, map[k].from, map[k].to), map, k + 1)

----------------------------------------------------------------------------
(* Bytes, sources and bundle entries. *)

NoFile == [kind |-> "none"]

\* binary content: which content it is, how long, how encoded
Bytes(id, len, enc) ==
    [kind |-> "bytes", id |-> id, len |-> len, enc |-> enc, text |-> <<>>]

\* a string source
Text(s) == [kind |-> "text", id |-> 0, len |-> Len(s), enc |-> "text", text |-> s]

\* the bytes of an image file as the bundler emitted it
Original(id) == Bytes(id, SrcLen, "source")

\* the bytes of an image file one byte longer
Larger(id) == Bytes(id, SrcLen + 1, "source")

\* OutputAsset { type: 'asset', fileName, source }
Asset(name, source) ==
    [type |-> "asset", fileName |-> name, source |-> source, code |-> <<>>]

\* OutputChunk { type: 'chunk', fileName, code }
Chunk(name, code) ==
    [type |-> "chunk", fileName |-> name, source |-> NoFile, code |-> code]

\* a file name: base, dot, extension
Name(base, ext) == <<base, ".", ext>>

----------------------------------------------------------------------------
(* The decisions of generateBundle. *)

\* quality = 80, the default of the plugin options
Quality == 80

Formats == {"auto", "webp", "jpeg", "png", "avif"}

\* const imageExtRe = /\.(png|jpe?g|webp|avif)$/i
ImageExtRe(fileName) ==
    /\ Len(fileName) >= 2
    /\ fileName[Len(fileName) - 1] = "."
    /\ ToLowerCase(fileName[Len(fileName)]) \in {"png", "jpg", "jpeg", "webp", "avif"}

\* (fileName.split('.').pop() || '').toLowerCase(), for a name imageExtRe accepts
OriginalExt(fileName) == ToLowerCase(fileName[Len(fileName)])

\* the for loop's two `continue` guards: an image asset is processed
Qualifies(e) == e.type = "asset" /\ ImageExtRe(e.fileName)

\* mutant: the configured format is used whether or not transcode is set
EffectiveFormat_IgnoresTranscode(fileName) ==
    IF cfg.format = "auto" THEN OriginalExt(fileName)
    ELSE ToLowerCase(cfg.format)

\* const effectiveFormat = (() => { ... })()
EffectiveFormat(fileName) ==
    IF cfg.format = "auto" THEN OriginalExt(fileName)
    ELSE IF ~cfg.transcode /\ ToLowerCase(cfg.format) # OriginalExt(fileName)
         THEN OriginalExt(fileName)
         ELSE ToLowerCase(cfg.format)

\* mutant: the file path is hashed into the key too
GetCacheKey_WithPath(filePath, content) ==
    [content |-> content, quality |-> Quality, format |-> cfg.format,
     path |-> filePath]

\* getCacheKey: md5 over the content and JSON.stringify({quality, format, ...});
\* the digest is modelled as injective, filePath is not hashed
GetCacheKey(filePath, content) ==
    [content |-> content, quality |-> Quality, format |-> cfg.format]

\* getCachePath: join(cache.dir, `${cacheKey}.${format}`)
GetCachePath(cacheKey, format) == [key |-> cacheKey, ext |-> format]

CachedPath(e) ==
    GetCachePath(GetCacheKey(e.fileName, e.source), EffectiveFormat(e.fileName))

\* cache.enabled && existsSync(cachedPath)
CacheExists(e) == cfg.cacheEnabled /\ CachedPath(e) \in DOMAIN cache

\* mutant: whatever the cache holds at the path is taken
CacheHitAccepted_Always(cachedContent, originalBuffer) == TRUE

\* if (cachedContent.length <= originalBuffer.length)
CacheHitAccepted(cachedContent, originalBuffer) ==
    cachedContent.len <= originalBuffer.len

\* mutant: a result of the same length replaces the original too
IsSmaller_OrEqual(data, originalBuffer) == data.len <= originalBuffer.len

\* if (result.data.length < originalBuffer.length)
IsSmaller(data, originalBuffer) == data.len < originalBuffer.len

\* if (transcode && effectiveFormat !== currentExt)
NeedsRename(fileName) ==
    cfg.transcode /\ EffectiveFormat(fileName) # OriginalExt(fileName)

\* fileName.replace(/\.[^./]+$/, '') + `.${result.format}`
NewName(fileName, format) ==
    SubSeq(fileName, 1, Len(fileName) - 2) \o <<".", format>>

\* what rustyPic.compress(file, {format, quality, ...}) can return for the
\* bytes: the input itself (the pass-through of a Node runtime) or data in
\* the requested format, one byte shorter, as long, or one byte longer
CompressResults(originalBuffer, format) ==
    {originalBuffer} \cup
    {Bytes(originalBuffer.id, n, format) :
        n \in {m \in (originalBuffer.len - 1)..(originalBuffer.len + 1) : m >= 0}}

\* one ProcessedFile record (the times are left out)
ProcessedFile(path, originalSize, compressedSize, format) ==
    [originalPath |-> path, compressedPath |-> path,
     originalSize |-> originalSize, compressedSize |-> compressedSize,
     format |-> format]

----------------------------------------------------------------------------
(* The manifest. *)

\* mutant: only the last record is counted
SumOriginal_LastOnly(files, k) ==
    IF Len(files) = 0 THEN 0 ELSE files[Len(files)].originalSize

\* manifest.summary.originalSize += file.originalSize, over the records
RECURSIVE SumOriginal(_, _)
SumOriginal(files, k) ==
    IF k > Len(files) THEN 0 ELSE files[k].originalSize + SumOriginal(files, k + 1)

\* manifest.summary.compressedSize += file.compressedSize, over the records
RECURSIVE SumCompressed(_, _)
SumCompressed(files, k) ==
    IF k > Len(files) THEN 0 ELSE files[k].compressedSize + SumCompressed(files, k + 1)

\* manifest.files[file.originalPath] = {...}: a later record of a path replaces
\* an earlier one
LastRecord(files, path) ==
    files[CHOOSE k \in 1..Len(files) :
            /\ files[k].originalPath = path
            /\ \A j \in (k + 1)..Len(files) : files[j].originalPath # path]

\* the PluginManifest built from processedFiles (timestamp, ratios and
\* times left out)
Manifest(files) ==
    [kind |-> "manifest",
     files |-> [path \in {files[k].originalPath : k \in 1..Len(files)} |->
                  LastRecord(files, path)],
     summary |-> [totalFiles |-> Len(files),
                  originalSize |-> SumOriginal(files, 1),
                  compressedSize |-> SumCompressed(files, 1),
                  totalSavings |-> SumOriginal(files, 1) - SumCompressed(files, 1)]]

\* mutant: a manifest is written for an empty record list too
WritesManifest_AlsoEmpty == cfg.generateManifest

\* if (!generateManifest || processedFiles.length === 0) return
WritesManifest == cfg.generateManifest /\ Len(processedFiles) > 0

----------------------------------------------------------------------------
(* The options of the plugin.  An options field that holds an object is    *)
(* the set of the objects given for it: empty when the key is left out.    *)
(* An object is a function from the keys it has to their values.           *)

\* dev = { enabled: false, quality: 60 }
DevQuality == 60
DefaultDev == [enabled |-> FALSE, quality |-> DevQuality]

\* build = { enabled: true, generateWebp: true, generateAvif: false }
DefaultBuild == [enabled |-> TRUE, generateWebp |-> TRUE, generateAvif |-> FALSE]

\* cache = { enabled: true, dir: 'node_modules/.cache/rusty-pic' }
DefaultCacheDir == "node_modules/.cache/rusty-pic"
DefaultCache == [enabled |-> TRUE, dir |-> DefaultCacheDir]

\* const { name = default } = options: the default is taken only when the
\* key is undefined, and then as a whole
Destructure(given, default) ==
    IF given = {} THEN default ELSE CHOOSE object \in given : TRUE

\* object.key, undefined (here: no value) when the object has no such key
Has(object, key) == key \in DOMAIN object

\* the objects a user may write for dev, build and cache
DevObjects ==
    {[enabled |-> e] : e \in BOOLEAN}
    \cup {[quality |-> q] : q \in {DevQuality, 50}}
    \cup {[enabled |-> e, quality |-> q] : e \in BOOLEAN, q \in {DevQuality, 50}}

BuildObjects ==
    {[enabled |-> e] : e \in BOOLEAN}
    \cup {[generateWebp |-> TRUE]}
    \cup {[enabled |-> e, generateWebp |-> TRUE] : e \in BOOLEAN}

CacheObjects ==
    {[enabled |-> e] : e \in BOOLEAN}
    \cup {[dir |-> d] : d \in {DefaultCacheDir, ".cache"}}
    \cup {[enabled |-> e, dir |-> d] : e \in BOOLEAN, d \in {DefaultCacheDir, ".cache"}}

\* at most one object for a key
Optional(objects) == {{}} \cup {{object} : object \in objects}

NoOptions ==
    [created |-> FALSE,
     given |-> [dev |-> {}, build |-> {}, cache |-> {}],
     dev |-> DefaultDev, build |-> DefaultBuild, cache |-> DefaultCache]

\* rustyPicPlugin(options): the destructuring of dev, build and cache
RustyPicPlugin(given) ==
    /\ ~options.created
    /\ options' = [created |-> TRUE,
                   given |-> given,
                   dev |-> Destructure(given.dev, DefaultDev),
                   build |-> Destructure(given.build, DefaultBuild),
                   cache |-> Destructure(given.cache, DefaultCache)]
    /\ UNCHANGED <<cfg, isDev, phase, builds, bundle, bundle0, idx, renameMap,
                   cache, processedFiles, manifestFile, manifestWrites, outcome,
                   calls, produced, prev, rewrites, initCalls, ioErrors,
                   sc, rp, tasks, libVars, wp>>

\* a change of the options object after the plugin was made has no effect
\* on the plugin: the host goes on with another options object
NewOptions ==
    /\ options.created
    /\ options' = NoOptions
    /\ UNCHANGED <<cfg, isDev, phase, builds, bundle, bundle0, idx, renameMap,
                   cache, processedFiles, manifestFile, manifestWrites, outcome,
                   calls, produced, prev, rewrites, initCalls, ioErrors,
                   sc, rp, tasks, libVars, wp>>

----------------------------------------------------------------------------
(* The hooks of the plugin, called by the host in lifecycle order. *)

NoBundle == <<>>

\* configResolved(resolvedConfig), command being config.command
ConfigResolved(command) ==
    /\ phase = "idle"
    /\ builds < MaxBuilds
    /\ builds' = builds + 1
    /\ isDev' = (command = "serve")
    /\ phase' = "configured"
    /\ manifestWrites' = 0
    /\ manifestFile' = NoFile
    /\ rewrites' = 0
    /\ initCalls' = 0
    /\ ioErrors' = {}
    /\ UNCHANGED <<cfg, bundle, bundle0, idx, renameMap, cache, processedFiles,
                   outcome, calls, produced, prev, sc, rp, tasks, libVars, options, wp>>

\* buildStart(): await rustyPic.init(), whatever the environment
BuildStart ==
    /\ phase = "configured"
    /\ phase' = "started"
    /\ initCalls' = initCalls + 1
    /\ UNCHANGED <<cfg, isDev, builds, bundle, bundle0, idx, renameMap, cache,
                   processedFiles, manifestFile, manifestWrites, outcome, calls,
                   produced, prev, sc, rp, tasks, libVars, options, wp, rewrites, ioErrors>>

\* if (isDev || !build.enabled) return
Disabled == isDev \/ ~cfg.buildEnabled

\* generateBundle(_options, bundle): entry, up to the for loop
GenerateBundle(b) ==
    /\ phase = "started"
    /\ bundle' = b
    /\ bundle0' = b
    /\ renameMap' = <<>>
    /\ outcome' = [i \in 1..Len(b) |-> "pending"]
    /\ calls' = {}
    /\ IF Disabled
       THEN phase' = "generated" /\ idx' = 0
       ELSE phase' = "processing" /\ idx' = 1
    /\ UNCHANGED <<cfg, isDev, builds, cache, processedFiles, manifestFile,
                   manifestWrites, produced, prev,
                   sc, rp, tasks, libVars, options, wp,
                   rewrites, initCalls, ioErrors>>

InLoop == phase = "processing" /\ idx <= Len(bundle)

\* the loop's `continue` for an entry that is no image asset
SkipEntry ==
    /\ InLoop
    /\ ~Qualifies(bundle[idx])
    /\ outcome' = [outcome EXCEPT ![idx] = "ignored"]
    /\ idx' = idx + 1
    /\ UNCHANGED <<cfg, isDev, phase, builds, bundle, bundle0, renameMap, cache,
                   processedFiles, manifestFile, manifestWrites, calls,
                   produced, prev,
                   sc, rp, tasks, libVars, options, wp,
                   rewrites, initCalls, ioErrors>>

\* the cache branch is taken for the entry
TakesCache(e) ==
    CacheExists(e) /\ CacheHitAccepted(cache[CachedPath(e)], e.source)

\* the cache hit branch: output.source = cachedContent, a record, continue
UseCached ==
    /\ InLoop
    /\ Qualifies(bundle[idx])
    /\ TakesCache(bundle[idx])
    /\ LET e == bundle[idx]
           cachedContent == cache[CachedPath(e)]
       IN /\ bundle' = [bundle EXCEPT ![idx].source = cachedContent]
          /\ processedFiles' = Append(processedFiles,
                 ProcessedFile(e.fileName, e.source.len, cachedContent.len,
                               EffectiveFormat(e.fileName)))
    /\ outcome' = [outcome EXCEPT ![idx] = "hit"]
    /\ idx' = idx + 1
    /\ UNCHANGED <<cfg, isDev, phase, builds, bundle0, renameMap, cache,
                   manifestFile, manifestWrites, calls, produced, prev,
                   sc, rp, tasks, libVars, options, wp,
                   rewrites, initCalls, ioErrors>>

\* await readFile(cachedPath) throws: the read is outside the try block, so
\* generateBundle rejects
CacheReadFailed ==
    /\ InLoop
    /\ Qualifies(bundle[idx])
    /\ CacheExists(bundle[idx])
    /\ outcome' = [outcome EXCEPT ![idx] = "readerror"]
    /\ ioErrors' = ioErrors \cup {"cacheRead"}
    /\ phase' = "failed"
    /\ UNCHANGED <<cfg, isDev, builds, bundle, bundle0, idx, renameMap, cache,
                   processedFiles, manifestFile, manifestWrites, calls, produced,
                   prev, sc, rp, tasks, libVars, options, wp, rewrites, initCalls>>

\* the call of rustyPic.compress for the entry
CallsCompress ==
    /\ InLoop
    /\ Qualifies(bundle[idx])
    /\ ~TakesCache(bundle[idx])
    /\ calls' = calls \cup
          {[entry |-> idx, format |-> EffectiveFormat(bundle[idx].fileName),
            quality |-> Quality]}

\* mutant: the compressed bytes are never written to the cache
WriteCache_Skipped(e, data) == UNCHANGED <<cache, produced>>

\* if (cache.enabled) { await ensureDir(cache.dir); await writeFile(cachedPath, result.data) }
WriteCache(e, data) ==
    IF cfg.cacheEnabled
    THEN /\ cache' = (CachedPath(e) :> data) @@ cache
         /\ produced' = IF CachedPath(e) \in DOMAIN produced THEN produced
                        ELSE (CachedPath(e) :> data) @@ produced
    ELSE UNCHANGED <<cache, produced>>

\* the size gate passed: replace the source, rename, write the cache, record;
\* when ensureDir or writeFile throws, the catch block of the entry takes
\* over after the replacement and the rename, before the record
Replace(e, result) ==
    /\ bundle' = [bundle EXCEPT
          ![idx].source = result,
          ![idx].fileName = IF NeedsRename(e.fileName)
                            THEN NewName(e.fileName, result.enc)
                            ELSE e.fileName]
    /\ renameMap' = IF NeedsRename(e.fileName)
                    THEN Append(renameMap,
                            [from |-> e.fileName, to |-> NewName(e.fileName, result.enc)])
                    ELSE renameMap
    /\ \/ /\ WriteCache(e, result)
          /\ processedFiles' = Append(processedFiles,
                 ProcessedFile(e.fileName, e.source.len, result.len, result.enc))
          /\ outcome' = [outcome EXCEPT ![idx] = "replaced"]
          /\ UNCHANGED ioErrors
       \/ /\ cfg.cacheEnabled
          /\ ioErrors' = ioErrors \cup {"cacheWrite"}
          /\ outcome' = [outcome EXCEPT ![idx] = "uncached"]
          /\ UNCHANGED <<cache, produced, processedFiles>>

\* mutant: a result that is not smaller is written to the cache all the same
Skip_ButCached(e, result) ==
    /\ outcome' = [outcome EXCEPT ![idx] = "skipped"]
    /\ cfg.cacheEnabled
    /\ cache' = (CachedPath(e) :> result) @@ cache
    /\ UNCHANGED <<bundle, renameMap, produced, processedFiles, ioErrors>>

\* the else branch of the size gate: log('debug', `Skip ...`), nothing else
Skip(e, result) ==
    /\ outcome' = [outcome EXCEPT ![idx] = "skipped"]
    /\ UNCHANGED <<bundle, renameMap, cache, produced, processedFiles, ioErrors>>

\* rustyPic.compress returned result: the size gate
Compressed ==
    /\ CallsCompress
    /\ \E result \in CompressResults(bundle[idx].source,
                                     EffectiveFormat(bundle[idx].fileName)) :
          IF IsSmaller(result, bundle[idx].source)
          THEN Replace(bundle[idx], result)
          ELSE Skip(bundle[idx], result)
    /\ idx' = idx + 1
    /\ UNCHANGED <<cfg, isDev, phase, builds, bundle0, manifestFile,
                   manifestWrites, prev, sc, rp, tasks, libVars, options, wp, rewrites, initCalls>>

\* mutant: the error of compress is not caught and generateBundle rejects
CatchCompressError_Rethrow ==
    /\ phase' = "failed"
    /\ idx' = idx

\* catch (err) { log('error', ...) }: the loop goes on with the next entry
CatchCompressError ==
    /\ phase' = phase
    /\ idx' = idx + 1

\* rustyPic.compress threw (every backend failed)
CompressFailed ==
    /\ CallsCompress
    /\ outcome' = [outcome EXCEPT ![idx] = "failed"]
    /\ CatchCompressError
    /\ UNCHANGED <<cfg, isDev, builds, bundle, bundle0, renameMap, cache,
                   processedFiles, manifestFile, manifestWrites, produced, prev,
                   sc, rp, tasks, libVars, options, wp,
                   rewrites, initCalls, ioErrors>>

\* rustyPic.compress never settles: the await of the loop never resumes
CompressHangs ==
    /\ CallsCompress
    /\ outcome' = [outcome EXCEPT ![idx] = "hung"]
    /\ phase' = "hung"
    /\ UNCHANGED <<cfg, isDev, builds, bundle, bundle0, idx, renameMap, cache,
                   processedFiles, manifestFile, manifestWrites, produced, prev,
                   sc, rp, tasks, libVars, options, wp,
                   rewrites, initCalls, ioErrors>>

\* mutant: the source of every asset is taken as a string and rewritten
Rewritten_AlsoBinary(e) ==
    IF e.type = "chunk" /\ e.code # <<>>
    THEN [e EXCEPT !.code = ApplyRenames(e.code, renameMap, 1)]
    ELSE IF e.type = "asset"
         THEN [e EXCEPT !.source = Text(ApplyRenames(e.source.text, renameMap, 1))]
         ELSE e

\* the text of an entry after the replacement of every renamed name
Rewritten(e) ==
    IF e.type = "chunk" /\ e.code # <<>>
    THEN [e EXCEPT !.code = ApplyRenames(e.code, renameMap, 1)]
    ELSE IF e.type = "asset" /\ e.source.kind = "text"
         THEN [e EXCEPT !.source = Text(ApplyRenames(e.source.text, renameMap, 1))]
         ELSE e

\* mutant: the rewrite starts while entries are still to be processed
LoopOver_Early == idx >= 2

\* the for loop over Object.entries(bundle) has run to its end
LoopOver == idx > Len(bundle)

\* after the loop: if (renameMap.length > 0) rewrite chunks and text assets
RewritePass ==
    /\ phase = "processing"
    /\ LoopOver
    /\ IF Len(renameMap) > 0
       THEN /\ bundle' = [i \in 1..Len(bundle) |-> Rewritten(bundle[i])]
            /\ rewrites' = rewrites + 1
       ELSE UNCHANGED <<bundle, rewrites>>
    /\ phase' = "generated"
    /\ UNCHANGED <<cfg, isDev, builds, bundle0, idx, renameMap, cache,
                   processedFiles, manifestFile, manifestWrites, outcome, calls,
                   produced, prev, sc, rp, tasks, libVars, options, wp, initCalls, ioErrors>>

\* generateManifestFile throws (ensureDir or writeFile): writeBundle rejects
\* before processedFiles.length = 0
ManifestWriteFailed ==
    /\ phase = "generated"
    /\ WritesManifest
    /\ ioErrors' = ioErrors \cup {"manifest"}
    /\ phase' = "failed"
    /\ UNCHANGED <<cfg, isDev, builds, bundle, bundle0, idx, renameMap, cache,
                   processedFiles, manifestFile, manifestWrites, outcome, calls,
                   produced, prev, sc, rp, tasks, libVars, options, wp, rewrites, initCalls>>

\* writeBundle(): await generateManifestFile(); processedFiles.length = 0
WriteBundle ==
    /\ phase = "generated"
    /\ IF WritesManifest
       THEN /\ manifestFile' = Manifest(processedFiles)
            /\ manifestWrites' = manifestWrites + 1
       ELSE UNCHANGED <<manifestFile, manifestWrites>>
    /\ processedFiles' = <<>>
    /\ phase' = "written"
    /\ UNCHANGED <<cfg, isDev, builds, bundle, bundle0, idx, renameMap, cache,
                   outcome, calls, produced, prev,
                   sc, rp, tasks, libVars, options, wp,
                   rewrites, initCalls, ioErrors>>

\* history: the content and format of every image of this build for which
\* the cache or the backend delivered bytes, and whether they were smaller
Done ==
    {[content |-> bundle0[i].source,
      format |-> EffectiveFormat(bundle0[i].fileName),
      shrunk |-> outcome[i] \in {"hit", "replaced"}] :
        i \in {j \in 1..Len(bundle0) : outcome[j] \in {"hit", "replaced", "skipped"}}}

\* closeBundle(): the build is over (also one that wrote nothing, or failed);
\* the host drops the bundle
CloseBundle ==
    /\ phase \in {"generated", "written", "failed"}
    /\ phase' = "idle"
    /\ bundle' = NoBundle
    /\ bundle0' = NoBundle
    /\ idx' = 0
    /\ renameMap' = <<>>
    /\ outcome' = <<>>
    /\ calls' = {}
    /\ prev' = Done
    /\ UNCHANGED <<cfg, isDev, builds, cache, processedFiles, manifestFile,
                   manifestWrites, produced, sc, rp, tasks, libVars, options, wp,
                   rewrites, initCalls, ioErrors>>

----------------------------------------------------------------------------
(* RustyPic.smartCompress and its budget search, iterativeCompress. *)

\* byte size of the input of smartCompress (analysis.size)
MaxInputSize == 10
\* the target sizes tried; 0 stands for a call without targetSize
MaxTarget == 4
\* compressedSize of what one compress call returns
MaxOutSize == 3

\* baseOptions.quality || 80
DefaultQuality == 80
\* for (let i = 0; i < 5 && ...; i++)
MaxRetries == 5
\* quality = Math.max(10, quality - 15)
QualityStep == 15
QualityFloor == 10

\* mutant: a ratio equal to a threshold is put in the band above it
SelectOptimalQuality_Inclusive(size, targetSize) ==
    IF targetSize # 0
    THEN IF 10 * targetSize >= 8 * size THEN 90
         ELSE IF 10 * targetSize >= 5 * size THEN 75
         ELSE IF 10 * targetSize >= 3 * size THEN 60
         ELSE 45
    ELSE 80

\* selectOptimalQuality(analysis, targetSize), analysis.complexity being 0.5;
\* ratio = targetSize / analysis.size compared with 0.8, 0.5 and 0.3
SelectOptimalQuality(size, targetSize) ==
    IF targetSize # 0
    THEN IF 10 * targetSize > 8 * size THEN 90
         ELSE IF 10 * targetSize > 5 * size THEN 75
         ELSE IF 10 * targetSize > 3 * size THEN 60
         ELSE 45
    ELSE 80

\* if (targetSize && result.compressedSize > targetSize)
NeedsIteration(targetSize, result) ==
    targetSize # 0 /\ result.compressedSize > targetSize

\* mutant: the loop gives up one retry early
Retries_OneLess(i, result, targetSize) ==
    i < MaxRetries - 1 /\ result.compressedSize > targetSize

\* the loop condition i < 5 && result.compressedSize > targetSize
Retries(i, result, targetSize) ==
    i < MaxRetries /\ result.compressedSize > targetSize

\* Math.max(10, quality - 15)
LowerQuality(quality) ==
    IF quality - QualityStep > QualityFloor THEN quality - QualityStep
    ELSE QualityFloor

NoResult == [quality |-> 0, compressedSize |-> 0, ok |-> FALSE]

\* what this.compress(input, {...options, quality}) can do: return a result
\* of any size, or throw when every backend failed
Attempts(quality) ==
    {[quality |-> quality, compressedSize |-> n, ok |-> TRUE] : n \in 0..MaxOutSize}
    \cup {[quality |-> quality, compressedSize |-> 0, ok |-> FALSE]}

ScIdle ==
    [pc |-> "idle", size |-> 0, targetSize |-> 0, quality |-> 0, i |-> 0,
     attempts |-> <<>>, result |-> NoResult]

\* smartCompress(input, targetSize): analysis and choice of the options
SmartCompress(size, targetSize) ==
    /\ sc.pc = "idle"
    /\ sc' = [ScIdle EXCEPT !.pc = "first", !.size = size,
                            !.targetSize = targetSize,
                            !.quality = SelectOptimalQuality(size, targetSize)]
    /\ UNCHANGED <<pluginVars, libVars, backendVars, wp>>

\* let result = await this.compress(input, options), then the test that
\* enters iterativeCompress
SmartFirst(a) ==
    /\ sc.pc = "first"
    /\ a \in Attempts(sc.quality)
    /\ sc' = [sc EXCEPT
          !.attempts = Append(@, a),
          !.result = a,
          !.pc = IF ~a.ok THEN "thrown"
                 ELSE IF NeedsIteration(sc.targetSize, a) THEN "iterative"
                 ELSE "returned"]
    /\ UNCHANGED <<pluginVars, libVars, backendVars, wp>>

\* quality?: number; // 0-100
MaxQuality == 100

\* iterativeCompress(input, baseOptions, targetSize) called with any base
\* quality of the documented range
CallIterative(quality, targetSize) ==
    /\ sc.pc = "idle"
    /\ sc' = [ScIdle EXCEPT !.pc = "iterative", !.targetSize = targetSize,
                            !.quality = quality]
    /\ UNCHANGED <<pluginVars, libVars, backendVars, wp>>

\* iterativeCompress: quality = baseOptions.quality || 80 and the compress
\* before the loop
IterativeCompress(a) ==
    /\ sc.pc = "iterative"
    /\ a \in Attempts(IF sc.quality # 0 THEN sc.quality ELSE DefaultQuality)
    /\ sc' = [sc EXCEPT
          !.quality = a.quality,
          !.attempts = Append(@, a),
          !.result = a,
          !.i = 0,
          !.pc = IF a.ok THEN "loop" ELSE "thrown"]
    /\ UNCHANGED <<pluginVars, libVars, backendVars, wp>>

\* one iteration of the loop of iterativeCompress
IterativeRetry(a) ==
    /\ sc.pc = "loop"
    /\ Retries(sc.i, sc.result, sc.targetSize)
    /\ a \in Attempts(LowerQuality(sc.quality))
    /\ sc' = [sc EXCEPT
          !.quality = a.quality,
          !.attempts = Append(@, a),
          !.result = a,
          !.i = @ + 1,
          !.pc = IF a.ok THEN "loop" ELSE "thrown"]
    /\ UNCHANGED <<pluginVars, libVars, backendVars, wp>>

\* the loop ends: return result
IterativeReturn ==
    /\ sc.pc = "loop"
    /\ ~Retries(sc.i, sc.result, sc.targetSize)
    /\ sc' = [sc EXCEPT !.pc = "returned"]
    /\ UNCHANGED <<pluginVars, libVars, backendVars, wp>>

----------------------------------------------------------------------------
(* RustyPic.init and RustyPic.compress: the codec and the fallback chain.  *)
(* The calls of several tasks interleave at their awaits.                  *)

\* tasks calling into one RustyPic instance
MaxTasks == 2
\* init and compress calls made on the instance
MaxCalls == 3

Tasks == 1..MaxTasks

\* private wasmModule = null; private initialized = false (loads and calls
\* are history: the codec loads attempted, the calls made)
NewRustyPic == [initialized |-> FALSE, wasmModule |-> FALSE, loads |-> 0, calls |-> 0]

NoCall == [pc |-> "idle", op |-> "none", wasmReady |-> FALSE, tried |-> <<>>]

\* the backends of compress in the order in which it tries them
Priority(backend) == IF backend = "wasm" THEN 1 ELSE 2

\* a call of init(), from buildStart or initRustyPic
CallInit(t) ==
    /\ tasks[t].pc = "idle"
    /\ rp.calls < MaxCalls
    /\ rp' = [rp EXCEPT !.calls = @ + 1]
    /\ tasks' = [tasks EXCEPT ![t] = [NoCall EXCEPT !.pc = "init", !.op = "init"]]
    /\ UNCHANGED <<pluginVars, libVars, sc, wp>>

\* a call of compress(input, options), whose first statement is await this.init()
CallCompress(t) ==
    /\ tasks[t].pc = "idle"
    /\ rp.calls < MaxCalls
    /\ rp' = [rp EXCEPT !.calls = @ + 1]
    /\ tasks' = [tasks EXCEPT ![t] = [NoCall EXCEPT !.pc = "init", !.op = "compress"]]
    /\ UNCHANGED <<pluginVars, libVars, sc, wp>>

\* if (this.initialized) return
AlreadyInitialized == rp.initialized

\* init(): the test of initialized, then the dynamic import of the codec
InitCheck(t) ==
    /\ tasks[t].pc = "init"
    /\ IF AlreadyInitialized
       THEN /\ tasks' = [tasks EXCEPT ![t].pc = "inited"]
            /\ UNCHANGED rp
       ELSE /\ tasks' = [tasks EXCEPT ![t].pc = "loading"]
            /\ rp' = [rp EXCEPT !.loads = @ + 1]
    /\ UNCHANGED <<pluginVars, libVars, sc, wp>>

\* the import and wasmModule.default() settle: on success wasmModule and
\* initialized are set, on failure the catch block only warns
LoadSettles(t, ok) ==
    /\ tasks[t].pc = "loading"
    /\ rp' = IF ok THEN [rp EXCEPT !.wasmModule = TRUE, !.initialized = TRUE]
             ELSE rp
    /\ tasks' = [tasks EXCEPT ![t].pc = "inited"]
    /\ UNCHANGED <<pluginVars, libVars, sc, wp>>

\* if (this.wasmModule && this.initialized)
WasmReady == rp.wasmModule /\ rp.initialized

\* init() has returned: an init call is over; compress picks its first backend
AfterInit(t) ==
    /\ tasks[t].pc = "inited"
    /\ tasks' = [tasks EXCEPT ![t] =
          IF tasks[t].op = "init" THEN NoCall
          ELSE [@ EXCEPT !.wasmReady = WasmReady,
                         !.pc = IF WasmReady THEN "wasm" ELSE "canvas"]]
    /\ UNCHANGED <<pluginVars, libVars, sc, rp, wp>>

\* mutant: the error of compressWithWasm leaves compress
AfterWasmError_Rethrow == "thrown"

\* catch (error) { console.warn(...) }: compress goes on to compressWithCanvas
AfterWasmError == "canvas"

\* compressWithWasm settles
WasmSettles(t, ok) ==
    /\ tasks[t].pc = "wasm"
    /\ tasks' = [tasks EXCEPT
          ![t].tried = Append(@, [backend |-> "wasm", ok |-> ok]),
          ![t].pc = IF ok THEN "returned" ELSE AfterWasmError]
    /\ UNCHANGED <<pluginVars, libVars, sc, rp, wp>>

\* compressWithCanvas settles: its rejection is the rejection of compress
CanvasSettles(t, ok) ==
    /\ tasks[t].pc = "canvas"
    /\ tasks' = [tasks EXCEPT
          ![t].tried = Append(@, [backend |-> "canvas", ok |-> ok]),
          ![t].pc = IF ok THEN "returned" ELSE "thrown"]
    /\ UNCHANGED <<pluginVars, libVars, sc, rp, wp>>

\* the caller has taken the result or the error of compress
CallOver(t) ==
    /\ tasks[t].pc \in {"returned", "thrown"}
    /\ tasks' = [tasks EXCEPT ![t] = NoCall]
    /\ UNCHANGED <<pluginVars, libVars, sc, rp, wp>>

----------------------------------------------------------------------------
(* RustyPicWebpackPlugin: the processAssets hook.  Each image asset has a  *)
(* task of its own; the tasks run in any order.                            *)

\* include: /\.(png|jpe?g|webp)$/i, the default of the options
ShouldProcessFile(filename) ==
    /\ Len(filename) >= 2
    /\ filename[Len(filename) - 1] = "."
    /\ ToLowerCase(filename[Len(filename)]) \in {"png", "jpg", "jpeg", "webp"}

\* format === 'auto' || (format && format !== ext) ? ext : format
WebpackEffectiveFormat(format, ext) ==
    IF format = "auto" \/ format # ext THEN ext ELSE format

\* getCacheKey(buf, filename + `|fmt:${effectiveFormat}`) and the cache path
WebpackCachePath(format, asset) ==
    [key |-> [content |-> asset.source, filename |-> asset.fileName,
              fmt |-> WebpackEffectiveFormat(format, OriginalExt(asset.fileName)),
              format |-> format],
     ext |-> WebpackEffectiveFormat(format, OriginalExt(asset.fileName))]

\* the assets of a compilation: three images that the include pattern
\* accepts, a script that names two of them, and an image it does not accept
WebpackAssets ==
    <<Asset(Name("a", "png"), Original(1)),
      Asset(Name("b", "JPG"), Original(2)),
      Asset(Name("main", "js"), Text(Name("a", "png") \o Name("b", "JPG"))),
      Asset(Name("c", "avif"), Original(3)),
      Asset(Name("d", "webp"), Original(4))>>

\* new RustyPicWebpackPlugin({ format })
NewWebpackPlugin(format) ==
    [format |-> format, phase |-> "idle", compilations |-> 0,
     assets |-> <<>>, assets0 |-> <<>>, status |-> <<>>, cache |-> <<>>]

\* processAssets: one task is started for every asset that shouldProcessFile
\* accepts and whose source is a string or a buffer
ProcessAssets ==
    /\ wp.phase = "idle"
    /\ wp.compilations < MaxBuilds
    /\ wp' = [wp EXCEPT
          !.phase = "processing",
          !.compilations = @ + 1,
          !.assets = WebpackAssets,
          !.assets0 = WebpackAssets,
          !.status = [i \in 1..Len(WebpackAssets) |->
                        IF ShouldProcessFile(WebpackAssets[i].fileName)
                        THEN "pending" ELSE "ignored"]]
    /\ UNCHANGED <<pluginVars, libVars, sc, rp, tasks>>

\* mutant: the asset is updated with whatever was compressed
WebpackGate_Always(data, buf) == TRUE

\* if (compressed && compressed.data.length < buf.length)
WebpackGate(data, buf) == data.len < buf.len

\* the end of a task: updateAsset when the gate passes
Settle(i, compressed) ==
    IF WebpackGate(compressed, wp.assets[i].source)
    THEN [wp EXCEPT !.assets[i].source = compressed, !.status[i] = "updated"]
    ELSE [wp EXCEPT !.status[i] = "kept"]

\* a task that finds its cache file: compressed = the cached content
TaskCached(i) ==
    /\ wp.phase = "processing"
    /\ i \in 1..Len(wp.status)
    /\ wp.status[i] = "pending"
    /\ WebpackCachePath(wp.format, wp.assets[i]) \in DOMAIN wp.cache
    /\ wp' = Settle(i, wp.cache[WebpackCachePath(wp.format, wp.assets[i])])
    /\ UNCHANGED <<pluginVars, libVars, sc, rp, tasks>>

\* a task that compresses: the result is written to the cache, then gated
TaskCompressed(i) ==
    /\ wp.phase = "processing"
    /\ i \in 1..Len(wp.status)
    /\ wp.status[i] = "pending"
    /\ WebpackCachePath(wp.format, wp.assets[i]) \notin DOMAIN wp.cache
    /\ \E result \in CompressResults(wp.assets[i].source,
              WebpackEffectiveFormat(wp.format, OriginalExt(wp.assets[i].fileName))) :
          wp' = [Settle(i, result) EXCEPT
                    !.cache = (WebpackCachePath(wp.format, wp.assets[i]) :> result) @@ @]
    /\ UNCHANGED <<pluginVars, libVars, sc, rp, tasks>>

\* a task in which readFile, compress, mkdir or writeFile throws:
\* catch (e) { console.error(...) }
TaskFailed(i) ==
    /\ wp.phase = "processing"
    /\ i \in 1..Len(wp.status)
    /\ wp.status[i] = "pending"
    /\ wp' = [wp EXCEPT !.status[i] = "failed"]
    /\ UNCHANGED <<pluginVars, libVars, sc, rp, tasks>>

\* await Promise.all(tasks): the hook returns
AllSettled ==
    /\ wp.phase = "processing"
    /\ \A i \in 1..Len(wp.status) : wp.status[i] # "pending"
    /\ wp' = [wp EXCEPT !.phase = "idle"]
    /\ UNCHANGED <<pluginVars, libVars, sc, rp, tasks>>

----------------------------------------------------------------------------
(* RustyPic.compressBatch. *)

\* files handed to one call of compressBatch
MaxFiles == 4

CbIdle ==
    [pc |-> "idle", total |-> 0, onProgress |-> FALSE, i |-> 0,
     settled |-> <<>>, results |-> <<>>, errors |-> <<>>, progress |-> <<>>]

\* compressBatch(files, options, onProgress): await this.init(), which never
\* rejects, and the two empty lists
CompressBatch(total, onProgress) ==
    /\ cb.pc = "idle"
    /\ cb' = [CbIdle EXCEPT !.pc = "loop", !.total = total,
                            !.onProgress = onProgress]
    /\ UNCHANGED <<pluginVars, sc, rp, tasks, wp, nc, mb>>

\* the head of one iteration: onProgress({completed: i, ...}), then the call
\* of this.compress(file, options)
BatchNext ==
    /\ cb.pc = "loop"
    /\ cb.i < cb.total
    /\ cb' = [cb EXCEPT
          !.progress = IF cb.onProgress THEN Append(@, cb.i) ELSE @,
          !.pc = "compress"]
    /\ UNCHANGED <<pluginVars, sc, rp, tasks, wp, nc, mb>>

\* mutant: the error of a file is thrown on
AfterBatchError_Rethrow == "thrown"

\* catch (error) { errors.push(...); console.error(...) }: the loop goes on
AfterBatchError == "loop"

\* compress settles for files[i]: results.push(result) or errors.push(...)
BatchSettles(ok) ==
    /\ cb.pc = "compress"
    /\ cb' = [cb EXCEPT
          !.settled = Append(@, ok),
          !.results = IF ok THEN Append(@, cb.i + 1) ELSE @,
          !.errors = IF ok THEN @ ELSE Append(@, cb.i + 1),
          !.i = @ + 1,
          !.pc = IF ok THEN "loop" ELSE AfterBatchError]
    /\ UNCHANGED <<pluginVars, sc, rp, tasks, wp, nc, mb>>

\* after the loop: onProgress({completed: files.length, ...}); return results
BatchReturn ==
    /\ cb.pc = "loop"
    /\ cb.i >= cb.total
    /\ cb' = [cb EXCEPT
          !.progress = IF cb.onProgress THEN Append(@, cb.total) ELSE @,
          !.pc = "returned"]
    /\ UNCHANGED <<pluginVars, sc, rp, tasks, wp, nc, mb>>

----------------------------------------------------------------------------
(* RustyPic.compress of rusty-pic.js, with the runtime it runs in, and the *)
(* size gates of its build-time callers.                                   *)

NoJsResult ==
    [data |-> NoFile, originalSize |-> 0, compressedSize |-> 0,
     compressionRatio |-> 0, format |-> "none"]

NcIdle ==
    [pc |-> "idle", window |-> FALSE, input |-> NoFile, format |-> "none",
     loaded |-> FALSE, backends |-> <<>>, result |-> NoJsResult,
     vite |-> "none", webpack |-> "none"]

\* the inputs of compress: an image, a longer image and an empty buffer
JsInputs == {Original(1), Larger(2), Bytes(3, 0, "source")}

\* options.format, "none" standing for an options object without format
JsFormats == Formats \cup {"none"}

\* compress(input, options): the call, whose first statement is await this.init()
JsCompress(input, format, window) ==
    /\ nc.pc = "idle"
    /\ nc' = [NcIdle EXCEPT !.pc = "init", !.window = window, !.input = input,
                            !.format = format]
    /\ UNCHANGED <<pluginVars, sc, rp, tasks, wp, cb, mb>>

\* init settles: the codec is loaded, or the catch block has warned
JsInitSettles(ok) ==
    /\ nc.pc = "init"
    /\ nc' = [nc EXCEPT !.loaded = ok, !.pc = "check"]
    /\ UNCHANGED <<pluginVars, sc, rp, tasks, wp, cb, mb>>

\* mutant: the runtime is never taken for Node
NoWindow_Never(window) == FALSE

\* typeof window === 'undefined'
NoWindow(window) == ~window

\* options.format === 'auto' ? 'png' : (options.format || 'png')
PassThroughFormat(format) ==
    IF format = "auto" \/ format = "none" THEN "png" ELSE format

\* the object returned in a Node runtime: the input bytes as they came
PassThrough(inputData, format) ==
    [data |-> inputData, originalSize |-> inputData.len,
     compressedSize |-> inputData.len, compressionRatio |-> 0,
     format |-> PassThroughFormat(format)]

\* the test of the runtime, after the input was turned into inputData
JsRuntimeCheck ==
    /\ nc.pc = "check"
    /\ nc' = IF NoWindow(nc.window)
             THEN [nc EXCEPT !.result = PassThrough(nc.input, nc.format),
                             !.pc = "returned"]
             ELSE [nc EXCEPT !.pc = IF nc.loaded THEN "wasm" ELSE "canvas"]
    /\ UNCHANGED <<pluginVars, sc, rp, tasks, wp, cb, mb>>

\* what a backend returns for the input
JsResult(data) ==
    [data |-> data, originalSize |-> nc.input.len, compressedSize |-> data.len,
     compressionRatio |-> IF nc.input.len = 0 THEN 0
                          ELSE ((nc.input.len - data.len) * 100) \div nc.input.len,
     format |-> data.enc]

\* compressWithWasm settles; its error is caught and the canvas is next
JsWasmSettles(ok) ==
    /\ nc.pc = "wasm"
    /\ \E data \in CompressResults(nc.input, PassThroughFormat(nc.format)) :
          nc' = [nc EXCEPT
                    !.backends = Append(@, "wasm"),
                    !.result = IF ok THEN JsResult(data) ELSE @,
                    !.pc = IF ok THEN "returned" ELSE "canvas"]
    /\ UNCHANGED <<pluginVars, sc, rp, tasks, wp, cb, mb>>

\* compressWithCanvas settles; its rejection is the rejection of compress
JsCanvasSettles(ok) ==
    /\ nc.pc = "canvas"
    /\ \E data \in CompressResults(nc.input, PassThroughFormat(nc.format)) :
          nc' = [nc EXCEPT
                    !.backends = Append(@, "canvas"),
                    !.result = IF ok THEN JsResult(data) ELSE @,
                    !.pc = IF ok THEN "returned" ELSE "thrown"]
    /\ UNCHANGED <<pluginVars, sc, rp, tasks, wp, cb, mb>>

\* the caller on a cache miss: the size gate of generateBundle and the one
\* of the webpack task, on the result and the bytes handed in
CallerGates ==
    /\ nc.pc = "returned"
    /\ nc' = [nc EXCEPT
          !.vite = IF IsSmaller(nc.result.data, nc.input) THEN "replaced" ELSE "kept",
          !.webpack = IF WebpackGate(nc.result.data, nc.input) THEN "replaced" ELSE "kept",
          !.pc = "gated"]
    /\ UNCHANGED <<pluginVars, sc, rp, tasks, wp, cb, mb>>

----------------------------------------------------------------------------
(* The memory bank: MemoryAgent.remember and recall over the files of a    *)
(* Node runtime.  A text is the set of its tokens (toTokens) and whether   *)
(* it is blank; an id is the number of the write that made it.             *)

\* items written through one agent
MaxItems == 2
\* the largest filter.limit tried; the smallest is -1
MaxLimit == 2

\* this.maxInject = Math.max(1, opts?.maxInject ?? 5)
MaxInject == 5

\* new MemoryAgent({ defaultSessionId: 'dev' }): defaultScope is 'session'
DefaultScope == "session"
DefaultSessionId == "dev"

NoQuery ==
    [tokens |-> {}, scope |-> {}, sessionId |-> "none", tagsAny |-> {},
     hasLimit |-> FALSE, limit |-> 0]

NewMemoryBank ==
    [pc |-> "idle", files |-> <<>>, remembered |-> <<>>, all |-> <<>>,
     query |-> NoQuery, recalled |-> <<>>]

\* the contents tried: an empty string, one word, two words
Contents ==
    {[tokens |-> {}, blank |-> TRUE],
     [tokens |-> {"x"}, blank |-> FALSE],
     [tokens |-> {"x", "y"}, blank |-> FALSE]}

\* the inputs of remember; "none" stands for a field that is not given
RememberInputs ==
    {[content |-> c, scope |-> sp, sessionId |-> sid, tags |-> tg] :
        c \in Contents, sp \in {"none", "global", "session"},
        sid \in {"none", "dev", ""}, tg \in {{}, {"t"}}}

\* the queries of recall; an empty scope or tagsAny stands for none given
RecallQueries ==
    {[tokens |-> q, scope |-> sp, sessionId |-> sid, tagsAny |-> tg,
      hasLimit |-> hl, limit |-> n] :
        q \in {{"x"}}, sp \in {{}, {"global"}, {"global", "session"}},
        sid \in {"none", "dev"}, tg \in {{}, {"t"}},
        hl \in BOOLEAN, n \in -1..MaxLimit}

\* toFilePath: the directory of the file of an item, as path.join gives it
\* (path.join(SESSION_DIR, '') is SESSION_DIR itself)
ToFileDir(item) ==
    IF item.scope = "global" THEN <<"global">>
    ELSE IF item.sessionId = "none" THEN <<"sessions", "default">>
    ELSE IF item.sessionId = "" THEN <<"sessions">>
    ELSE <<"sessions", item.sessionId>>

\* writeMemoryItem in a Node runtime: ensureMemoryItem, then the file
WriteMemoryItem(partial) ==
    LET item == [id |-> Len(mb.files) + 1, scope |-> partial.scope,
                 sessionId |-> partial.sessionId, tags |-> partial.tags,
                 tokens |-> partial.content.tokens, blank |-> partial.content.blank]
    IN [dir |-> ToFileDir(item), item |-> item]

\* remember(input): the scope and the session are completed, then
\* upsertGlobalNote or upsertSessionNote writes the item
Remember(input) ==
    /\ Len(mb.files) < MaxItems
    /\ LET scope == IF input.scope = "none" THEN DefaultScope ELSE input.scope
           sessionId == IF scope = "session"
                        THEN IF input.sessionId = "none" THEN DefaultSessionId
                             ELSE input.sessionId
                        ELSE "none"
           file == WriteMemoryItem([content |-> input.content, scope |-> scope,
                                    sessionId |-> sessionId, tags |-> input.tags])
       IN mb' = [NewMemoryBank EXCEPT
                    !.files = Append(mb.files, file),
                    !.remembered = Append(mb.remembered, file.item)]
    /\ UNCHANGED <<pluginVars, sc, rp, tasks, wp, cb, nc>>

\* isValidItem: isNonEmptyString(obj.id) && isNonEmptyString(obj.content)
IsValidItem(item) == ~item.blank

\* the item of every file of the sequence
ItemsOf(files) == [k \in 1..Len(files) |-> files[k].item]

\* readAllMemory in a Node runtime: the files of GLOBAL_DIR, then the files
\* of the directories that are directly in SESSION_DIR; the valid items
ReadAllMemory(files) ==
    LET InGlobalDir(f) == f.dir = <<"global">>
        InSessionDir(f) == Len(f.dir) = 2 /\ f.dir[1] = "sessions"
        Valid(item) == IsValidItem(item)
    IN SelectSeq(ItemsOf(SelectSeq(files, InGlobalDir))
                 \o ItemsOf(SelectSeq(files, InSessionDir)), Valid)

\* getAll(): readAllMemory()
GetAll ==
    /\ mb.pc # "listed"
    /\ mb.files # <<>>
    /\ mb' = [mb EXCEPT !.pc = "listed", !.all = ReadAllMemory(mb.files)]
    /\ UNCHANGED <<pluginVars, sc, rp, tasks, wp, cb, nc>>

\* the filter of simpleSearch (every item has the project of the agent)
Candidate(item, filter) ==
    /\ filter.scope # {} => item.scope \in filter.scope
    /\ filter.sessionId \notin {"none", ""} => item.sessionId = filter.sessionId
    /\ filter.tagsAny # {} => item.tags \cap filter.tagsAny # {}

\* jaccardSimilarity as the fraction inter / union, 0 / 1 for an empty union
JaccardSimilarity(a, b) ==
    IF a \cup b = {} THEN [inter |-> 0, union |-> 1]
    ELSE [inter |-> Cardinality(a \cap b), union |-> Cardinality(a \cup b)]

\* the score s is strictly greater than the score t
Greater(s, t) == s.inter * t.union > t.inter * s.union

\* scored.sort((a, b) => b.score - a.score), a stable sort: r goes behind
\* every result whose score is not smaller
RECURSIVE InsertByScore(_, _)
InsertByScore(sorted, r) ==
    IF sorted = <<>> THEN <<r>>
    ELSE IF Greater(r.score, sorted[1].score) THEN <<r>> \o sorted
         ELSE <<sorted[1]>> \o InsertByScore(Tail(sorted), r)

RECURSIVE SortByScore(_, _)
SortByScore(scored, k) ==
    IF k = 0 THEN <<>>
    ELSE InsertByScore(SortByScore(scored, k - 1), scored[k])

\* Array.prototype.slice(0, limit): a negative limit counts from the end
Slice(seq, limit) ==
    LET end == IF limit >= 0
               THEN (IF limit < Len(seq) THEN limit ELSE Len(seq))
               ELSE (IF Len(seq) + limit > 0 THEN Len(seq) + limit ELSE 0)
    IN SubSeq(seq, 1, end)

\* simpleSearch: filter, score, sort, slice
SimpleSearch(files, query) ==
    LET Pass(item) == Candidate(item, query)
        candidate == SelectSeq(ReadAllMemory(files), Pass)
        scored == [k \in 1..Len(candidate) |->
                     [item |-> candidate[k],
                      score |-> JaccardSimilarity(query.tokens, candidate[k].tokens)]]
    IN Slice(SortByScore(scored, Len(scored)), query.limit)

\* limit: Math.min(this.maxInject, query.filter?.limit ?? this.maxInject)
BaseLimit(query) ==
    IF query.hasLimit /\ query.limit < MaxInject THEN query.limit ELSE MaxInject

\* recall(query): the filter is completed, then simpleSearch
Recall(query) ==
    /\ mb.pc # "recalled"
    /\ mb.files # <<>>
    /\ query.hasLimit \/ query.limit = 0
    /\ mb' = [mb EXCEPT
          !.pc = "recalled",
          !.query = query,
          !.recalled = SimpleSearch(mb.files, [query EXCEPT !.limit = BaseLimit(query)])]
    /\ UNCHANGED <<pluginVars, sc, rp, tasks, wp, cb, nc>>

----------------------------------------------------------------------------
(* The bundles the host hands over, and the configurations. *)

\* a reference to a file in a script or a style sheet
Ref(n) == <<"url(">> \o n \o <<")">>

\* main.js: a chunk whose code refers to the two images
MainChunk(n1, n2) == Chunk(Name("main", "js"), Ref(n1) \o Ref(n2))

\* index.css, a text asset, and a font, a binary asset that is no image
StyleAsset(n) == Asset(Name("index", "css"), Text(Ref(n)))
FontAsset == Asset(Name("f", "woff"), Bytes(9, SrcLen, "source"))

\* two different images, a chunk, a style sheet and a font
UsualBundle ==
    <<Asset(Name("a", "png"), Original(1)),
      MainChunk(Name("a", "png"), Name("b", "png")),
      Asset(Name("b", "png"), Larger(2)),
      StyleAsset(Name("b", "png")),
      FontAsset>>

\* the same image under two names, of the same extension (up to case) or
\* of another one
TwinBundles ==
    {<<Asset(Name("a", "png"), Original(1)),
       Asset(Name("b", ext), Original(1)),
       StyleAsset(Name("b", ext))>> : ext \in {"PNG", "jpg"}}

\* file names that hold an image extension inside their base name
NestedBundle ==
    <<Asset(<<"x", ".", "png", ".", "jpg">>, Original(1)),
      Asset(Name("x", "webp"), Original(2)),
      Chunk(Name("main", "js"), <<"x", ".", "webp", ".", "jpg">>)>>

\* an image whose name begins with the whole name of another image
SubstringBundle ==
    <<Asset(<<"x", ".", "webp", ".", "jpg">>, Original(1)),
      Asset(Name("x", "webp"), Original(2)),
      MainChunk(<<"x", ".", "webp", ".", "jpg">>, Name("x", "webp"))>>

Bundles == {UsualBundle, NestedBundle, SubstringBundle} \cup TwinBundles

Config(format, transcode, cacheEnabled, devEnabled, buildEnabled, generateManifest) ==
    [format |-> format, transcode |-> transcode, cacheEnabled |-> cacheEnabled,
     devEnabled |-> devEnabled, buildEnabled |-> buildEnabled,
     generateManifest |-> generateManifest]

\* every format with and without transcode; the cache switched off; and
\* every combination of the environment switches
Configs ==
    {Config(f, t, TRUE, FALSE, TRUE, TRUE) : f \in Formats, t \in BOOLEAN}
    \cup {Config("png", TRUE, FALSE, FALSE, TRUE, TRUE)}
    \cup {Config("auto", FALSE, TRUE, d, b, m) :
            d \in BOOLEAN, b \in BOOLEAN, m \in BOOLEAN}

----------------------------------------------------------------------------
(* Specifications. *)

InitPlugin ==
    /\ cfg \in Configs
    /\ isDev = FALSE
    /\ phase = "idle"
    /\ builds = 0
    /\ bundle = NoBundle
    /\ bundle0 = NoBundle
    /\ idx = 0
    /\ renameMap = <<>>
    /\ cache = <<>>
    /\ processedFiles = <<>>
    /\ manifestFile = NoFile
    /\ manifestWrites = 0
    /\ outcome = <<>>
    /\ calls = {}
    /\ produced = <<>>
    /\ prev = {}
    /\ rewrites = 0
    /\ initCalls = 0
    /\ ioErrors = {}
    /\ options = NoOptions

InitLib ==
    /\ cb = CbIdle
    /\ nc = NcIdle
    /\ mb = NewMemoryBank

InitBackend ==
    /\ rp = NewRustyPic
    /\ tasks = [t \in Tasks |-> NoCall]
    /\ wp = NewWebpackPlugin("auto")
    /\ InitLib

Init == InitPlugin /\ sc = ScIdle /\ InitBackend

Next ==
    \/ \E command \in {"serve", "build"} : ConfigResolved(command)
    \/ BuildStart
    \/ \E b \in Bundles : GenerateBundle(b)
    \/ SkipEntry
    \/ UseCached
    \/ CacheReadFailed
    \/ Compressed
    \/ CompressFailed
    \/ CompressHangs
    \/ RewritePass
    \/ WriteBundle
    \/ ManifestWriteFailed
    \/ CloseBundle

Spec == Init /\ [][Next]_vars

\* the budget search alone, on a plugin with the default options
InitSmart ==
    /\ InitPlugin
    /\ cfg = Config("auto", FALSE, TRUE, FALSE, TRUE, FALSE)
    /\ sc = ScIdle
    /\ InitBackend

NextSmart ==
    \/ \E size \in 1..MaxInputSize, targetSize \in 0..MaxTarget :
          SmartCompress(size, targetSize)
    \/ \E a \in Attempts(sc.quality) : SmartFirst(a)
    \/ \E a \in Attempts(IF sc.quality # 0 THEN sc.quality ELSE DefaultQuality) :
          IterativeCompress(a)
    \/ \E a \in Attempts(LowerQuality(sc.quality)) : IterativeRetry(a)
    \/ IterativeReturn

SpecSmart == InitSmart /\ [][NextSmart]_vars

\* the plugin with format 'auto' and a manifest, on a host and a loop that
\* take their next step whenever there is one
InitFair ==
    /\ Init
    /\ cfg = Config("auto", FALSE, TRUE, FALSE, TRUE, TRUE)

SpecFair == InitFair /\ [][Next]_vars /\ WF_vars(Next)

\* what an earlier version of the plugin, which wrote result.data to the same
\* path whatever its length, can have left in the cache directory for a.png:
\* nothing, or data shorter than, as long as, or longer than the image
PriorCaches ==
    LET cachedPath == GetCachePath(GetCacheKey(Name("a", "png"), Original(1)), "png")
    IN {<<>>} \cup
       {(cachedPath :> Bytes(1, n, "png")) : n \in (SrcLen - 1)..(SrcLen + 1)}

\* the plugin with the default options over a cache directory that is kept
\* from earlier runs
InitCache ==
    /\ cfg = Config("auto", FALSE, TRUE, FALSE, TRUE, TRUE)
    /\ isDev = FALSE
    /\ phase = "idle"
    /\ builds = 0
    /\ bundle = NoBundle
    /\ bundle0 = NoBundle
    /\ idx = 0
    /\ renameMap = <<>>
    /\ cache \in PriorCaches
    /\ processedFiles = <<>>
    /\ manifestFile = NoFile
    /\ manifestWrites = 0
    /\ outcome = <<>>
    /\ calls = {}
    /\ produced = <<>>
    /\ prev = {}
    /\ rewrites = 0
    /\ initCalls = 0
    /\ ioErrors = {}
    /\ options = NoOptions
    /\ sc = ScIdle
    /\ InitBackend

SpecCache == InitCache /\ [][Next]_vars

\* iterativeCompress alone, over every base quality
NextIterative ==
    \/ \E quality \in 1..MaxQuality, targetSize \in 1..MaxTarget :
          CallIterative(quality, targetSize)
    \/ \E a \in Attempts(IF sc.quality # 0 THEN sc.quality ELSE DefaultQuality) :
          IterativeCompress(a)
    \/ \E a \in Attempts(LowerQuality(sc.quality)) : IterativeRetry(a)
    \/ IterativeReturn

SpecIterative == InitSmart /\ [][NextIterative]_vars

\* compressBatch over every number of files, with and without a callback
NextBatch ==
    \/ \E total \in 0..MaxFiles, onProgress \in BOOLEAN :
          CompressBatch(total, onProgress)
    \/ BatchNext
    \/ \E ok \in BOOLEAN : BatchSettles(ok)
    \/ BatchReturn

SpecBatch == InitSmart /\ [][NextBatch]_vars

\* compress of rusty-pic.js in a Node runtime and in a browser
NextJs ==
    \/ \E input \in JsInputs, format \in JsFormats, window \in BOOLEAN :
          JsCompress(input, format, window)
    \/ \E ok \in BOOLEAN : JsInitSettles(ok)
    \/ JsRuntimeCheck
    \/ \E ok \in BOOLEAN : JsWasmSettles(ok)
    \/ \E ok \in BOOLEAN : JsCanvasSettles(ok)
    \/ CallerGates

SpecJs == InitSmart /\ [][NextJs]_vars

\* one MemoryAgent over a memory directory that starts empty
NextMemory ==
    \/ \E input \in RememberInputs : Remember(input)
    \/ GetAll
    \/ \E query \in RecallQueries : Recall(query)

SpecMemory == InitSmart /\ [][NextMemory]_vars

\* one RustyPic instance and the calls made on it
NextBackend ==
    \E t \in Tasks :
        \/ CallInit(t)
        \/ CallCompress(t)
        \/ InitCheck(t)
        \/ \E ok \in BOOLEAN : LoadSettles(t, ok)
        \/ AfterInit(t)
        \/ \E ok \in BOOLEAN : WasmSettles(t, ok)
        \/ \E ok \in BOOLEAN : CanvasSettles(t, ok)
        \/ CallOver(t)

SpecBackend == InitSmart /\ [][NextBackend]_vars

\* rustyPicPlugin called with every options object
NextOptions ==
    \/ \E dev \in Optional(DevObjects), build \in Optional(BuildObjects),
          cacheOption \in Optional(CacheObjects) :
          RustyPicPlugin([dev |-> dev, build |-> build, cache |-> cacheOption])
    \/ NewOptions

SpecOptions == InitSmart /\ [][NextOptions]_vars

\* the webpack plugin, made with every format, over its compilations
InitWebpack ==
    /\ InitPlugin
    /\ cfg = Config("auto", FALSE, TRUE, FALSE, TRUE, FALSE)
    /\ sc = ScIdle
    /\ rp = NewRustyPic
    /\ tasks = [t \in Tasks |-> NoCall]
    /\ wp \in {NewWebpackPlugin(format) : format \in Formats}
    /\ InitLib

NextWebpack ==
    \/ ProcessAssets
    \/ \E i \in 1..Len(wp.status) : TaskCached(i)
    \/ \E i \in 1..Len(wp.status) : TaskCompressed(i)
    \/ \E i \in 1..Len(wp.status) : TaskFailed(i)
    \/ AllSettled

SpecWebpack == InitWebpack /\ [][NextWebpack]_vars

----------------------------------------------------------------------------
(* Properties of the Vite plugin. *)

Entries == 1..Len(bundle)

\* the image assets generateBundle has dealt with so far in this build
Processed(i) ==
    outcome[i] \in {"hit", "replaced", "uncached", "skipped", "failed"}

\* the image assets whose bytes generateBundle has replaced in this build
Mutated(i) == outcome[i] \in {"hit", "replaced", "uncached"}

\* the text of an entry, if it is a text artifact (chunk code or string source)
IsTextArtifact(e) == e.type = "chunk" \/ (e.type = "asset" /\ e.source.kind = "text")
TextOf(e) == IF e.type = "chunk" THEN e.code ELSE e.source.text

C2_ReferentialIntegrity ==
    phase = "generated" =>
        \A k \in 1..Len(renameMap) :
            /\ \A i \in Entries :
                  IsTextArtifact(bundle[i]) =>
                      ~Includes(TextOf(bundle[i]), renameMap[k].from)
            /\ \E i \in Entries : bundle[i].fileName = renameMap[k].to

\* C3: with transcode, an asset whose bytes were replaced by bytes of a
\* format other than its extension carries the new name and has a RenameEntry
C3_TranscodeRenames ==
    \A i \in Entries :
        ( /\ cfg.transcode
          /\ Qualifies(bundle0[i])
          /\ Mutated(i)
          /\ bundle[i].source.enc # OriginalExt(bundle0[i].fileName) ) =>
            /\ bundle[i].fileName =
                   NewName(bundle0[i].fileName, bundle[i].source.enc)
            /\ \E k \in 1..Len(renameMap) :
                  renameMap[k] = [from |-> bundle0[i].fileName,
                                  to |-> bundle[i].fileName]

\* C4: without transcode every compression is asked for the format of the
\* asset's own (lower-cased) extension, whatever the configured format, the
\* bytes put into an asset are of that format, no RenameEntry is recorded
\* and no asset changes its name
C4_NonTranscoding ==
    ~cfg.transcode =>
        /\ \A c \in calls : c.format = OriginalExt(bundle0[c.entry].fileName)
        /\ \A i \in Entries :
              Mutated(i) =>
                  bundle[i].source.enc = OriginalExt(bundle0[i].fileName)
        /\ renameMap = <<>>
        /\ \A i \in Entries : bundle[i].fileName = bundle0[i].fileName

\* format 'webp' is configured and a png is compressed as png
C4_Witness ==
    /\ ~cfg.transcode
    /\ cfg.format = "webp"
    /\ \E c \in calls :
          c.format = "png" /\ outcome[c.entry] = "replaced"

\* C5: in a development build with dev.enabled = false no asset is mutated
\* and no manifest is written
C5_EnvironmentGating ==
    (isDev /\ ~cfg.devEnabled /\ phase # "idle") =>
        /\ bundle = bundle0
        /\ manifestWrites = 0

\* C6: an asset whose compression failed keeps its bytes and its name,
\* generateBundle goes on after it and does not fail because of it (a hook
\* fails only on a file operation that failed), and when generateBundle is
\* over every image asset has been dealt with
C6_FailureIsolation ==
    \A i \in Entries :
        outcome[i] = "failed" =>
            /\ bundle[i] = bundle0[i]
            /\ idx > i
            /\ phase = "failed" => ioErrors \cap {"cacheRead", "manifest"} # {}
            /\ phase \in {"generated", "written"} =>
                  \A j \in Entries : Qualifies(bundle0[j]) => Processed(j)

\* the first image failed, the second one was replaced all the same
C6_Witness ==
    /\ phase = "generated"
    /\ \E i, j \in Entries :
          i < j /\ outcome[i] = "failed" /\ outcome[j] = "replaced"

\* the build before got bytes for this content in this effective format
\* (from the backend or the cache)
SeenBefore(i) ==
    \E s \in prev :
        /\ s.content = bundle0[i].source
        /\ s.format = EffectiveFormat(bundle0[i].fileName)

\* the build before replaced an asset of this content and effective format
\* by smaller bytes
ShrunkBefore(i) ==
    \E s \in prev :
        /\ s.content = bundle0[i].source
        /\ s.format = EffectiveFormat(bundle0[i].fileName)
        /\ s.shrunk

\* C7 as stated: with the cache enabled, an asset whose bytes were compressed
\* in an earlier build is served from the cache
C7_CacheIdempotence ==
    \A i \in Entries :
        (cfg.cacheEnabled /\ Processed(i) /\ SeenBefore(i)) => outcome[i] = "hit"

\* C7 amended: with the cache enabled, an asset whose bytes an earlier build
\* replaced by smaller bytes (same options, same effective format) is served
\* from the cache: no compress call, and the bytes are those of the first
\* compression cached for it
C7_CacheIdempotenceShrunk ==
    \A i \in Entries :
        (cfg.cacheEnabled /\ Processed(i) /\ ShrunkBefore(i)) =>
            /\ outcome[i] = "hit"
            /\ \A c \in calls : c.entry # i
            /\ CachedPath(bundle0[i]) \in DOMAIN produced
            /\ bundle[i].source = produced[CachedPath(bundle0[i])]

\* a second build served an asset from the cache the first build filled
C7_Witness ==
    /\ builds = 2
    /\ \E i \in Entries :
          cfg.cacheEnabled /\ ShrunkBefore(i) /\ outcome[i] = "hit"

\* an earlier entry of this build with the same content was replaced
ShrunkEarlier(i, sameFormat) ==
    \E j \in 1..(i - 1) :
        /\ Qualifies(bundle0[j])
        /\ bundle0[j].source = bundle0[i].source
        /\ outcome[j] \in {"hit", "replaced"}
        /\ sameFormat =>
              EffectiveFormat(bundle0[j].fileName) = EffectiveFormat(bundle0[i].fileName)

C12_RewriteBarrier ==
    /\ [](/\ rewrites <= 1
          /\ rewrites = 1 =>
                /\ phase \notin {"processing", "hung"}
                /\ \A j \in Entries : Qualifies(bundle0[j]) => Processed(j))
    /\ [][(calls' # calls /\ calls' # {}) => (rewrites = 0 /\ rewrites' = 0)]_vars

\* the rewrite pass has run over a bundle with a renamed asset and an asset
\* that was not replaced
C12_Witness ==
    /\ rewrites = 1
    /\ phase = "generated"
    /\ \E i, j \in Entries :
          /\ bundle[i].fileName # bundle0[i].fileName
          /\ outcome[j] \in {"skipped", "failed"}

\* the assets for which this build pushed a ProcessedFile record
Recorded == {i \in Entries : outcome[i] \in {"hit", "replaced"}}

\* C13: no record outlives its build: the record list is empty when a build
\* starts, and the manifest a build writes counts only records of that build
C13_NoRecordAcrossBuilds ==
    /\ phase \in {"configured", "started"} => processedFiles = <<>>
    /\ (phase = "written" /\ manifestFile # NoFile) =>
          manifestFile.summary.totalFiles = Cardinality(Recorded)

\* the records of processedFiles for the asset that came in as entry i
RecordsOf(i) ==
    {k \in 1..Len(processedFiles) :
        processedFiles[k].originalPath = bundle0[i].fileName}

\* C14: when generateBundle is over there is exactly one record for each
\* asset whose bytes or name it changed, and none for any other asset
C14_OneRecordPerMutated ==
    phase = "generated" =>
        \A i \in Entries :
            Cardinality(RecordsOf(i)) = IF bundle[i] # bundle0[i] /\ Qualifies(bundle0[i])
                                        THEN 1 ELSE 0

\* C17: a cache read or write error does not fail the build, and an asset
\* whose cache write failed is compressed all the same
C17_CacheErrorIsMiss ==
    /\ (ioErrors \cap {"cacheRead", "cacheWrite"} # {} /\ "manifest" \notin ioErrors) =>
          phase # "failed"
    /\ \A i \in Entries :
          outcome[i] = "uncached" =>
              bundle[i].source.len < bundle0[i].source.len

\* C18: a manifest write that failed does not fail writeBundle, and leaves
\* the bundle as generateBundle left it
C18_ManifestFailureNonFatal ==
    "manifest" \in ioErrors => phase # "failed"

\* the pipeline is switched off for the environment of the build
DisabledForEnvironment ==
    \/ isDev /\ ~cfg.devEnabled
    \/ ~isDev /\ ~cfg.buildEnabled

\* C19: in a build whose environment has the pipeline switched off, the
\* backend is not initialised, no asset is processed or rewritten and no
\* manifest is written
C19_DisabledShortCircuit ==
    (phase # "idle" /\ DisabledForEnvironment) =>
        /\ initCalls = 0
        /\ calls = {}
        /\ bundle = bundle0
        /\ rewrites = 0
        /\ manifestWrites = 0

\* C20: when the compress call of one asset never returns, every other
\* image asset of the build is processed in the end
C20_HangIsolated ==
    [](phase = "hung" =>
          <>(\A j \in Entries :
                (Qualifies(bundle0[j]) /\ outcome[j] # "hung") => Processed(j)))

\* C23: in a development build with dev.enabled = true the image assets are
\* compressed, with dev.quality as the quality
C23_DevCompresses ==
    (isDev /\ cfg.devEnabled /\ phase \in {"generated", "written"}) =>
        /\ \A j \in Entries : Qualifies(bundle0[j]) => Processed(j)
        /\ \A c \in calls : c.quality = DevQuality

RECURSIVE TotalOf(_, _)
TotalOf(size, indices) ==
    IF indices = {} THEN 0
    ELSE LET k == CHOOSE k \in indices : TRUE
         IN size[k] + TotalOf(size, indices \ {k})

\* C25: the summary of a manifest that is written has the number of the
\* records as totalFiles, the sums of their original and compressed sizes
\* as originalSize and compressedSize, and their difference as totalSavings
C25_ManifestSummary ==
    [][manifestWrites' = manifestWrites + 1 =>
         LET records == 1..Len(processedFiles)
             summary == manifestFile'.summary
         IN /\ summary.totalFiles = Len(processedFiles)
            /\ summary.originalSize =
                   TotalOf([k \in records |-> processedFiles[k].originalSize], records)
            /\ summary.compressedSize =
                   TotalOf([k \in records |-> processedFiles[k].compressedSize], records)
            /\ summary.totalSavings = summary.originalSize - summary.compressedSize]_vars

\* a manifest over two records whose compressed sizes are not all zero
C25_Witness ==
    /\ manifestFile # NoFile
    /\ manifestFile.summary.totalFiles = 2
    /\ manifestFile.summary.compressedSize > 0
    /\ manifestFile.summary.totalSavings > 0

\* C26: after the rewrite pass, a text artifact that referred to an asset
\* by its name refers to it by its final name (the new name of a renamed
\* asset, the same name otherwise)
C26_ConsistentReferences ==
    phase = "generated" =>
        \A t, i \in Entries :
            ( /\ IsTextArtifact(bundle0[t])
              /\ bundle0[i].type = "asset"
              /\ Includes(TextOf(bundle0[t]), Ref(bundle0[i].fileName)) ) =>
                Includes(TextOf(bundle[t]), Ref(bundle[i].fileName))

\* C27: the step that finds the compressed output of an asset not smaller
\* than its bytes changes neither the bundle nor the rename map, the record
\* list or the cache, and the asset has its original bytes and name from
\* then on, with transcode as without
C27_SkipLeavesNoTrace ==
    /\ [](\A i \in Entries : outcome[i] = "skipped" => bundle[i] = bundle0[i])
    /\ [][\A i \in Entries :
            ( /\ i \in DOMAIN outcome'
              /\ outcome[i] = "pending"
              /\ outcome'[i] = "skipped" ) =>
                /\ bundle' = bundle
                /\ renameMap' = renameMap
                /\ processedFiles' = processedFiles
                /\ cache' = cache]_vars

\* with transcode to another format, an asset that did not shrink is in the
\* finished bundle as it came
C27_Witness ==
    /\ phase = "generated"
    /\ cfg.transcode
    /\ \E i \in Entries :
          /\ outcome[i] = "skipped"
          /\ EffectiveFormat(bundle0[i].fileName) # OriginalExt(bundle0[i].fileName)
          /\ bundle[i] = bundle0[i]

\* C33: every entry generateBundle writes to the cache is for the asset the
\* loop is at and holds bytes strictly shorter than the asset bytes of its
\* key; a step that finds an asset not shrinking writes no entry, and it
\* has called the backend for the asset, in every build
C33_CacheOnlyShrunk ==
    /\ [][\A p \in DOMAIN cache' :
            (p \notin DOMAIN cache \/ cache'[p] # cache[p]) =>
                /\ p = CachedPath(bundle[idx])
                /\ p.key.content = bundle[idx].source
                /\ cache'[p].len < p.key.content.len]_vars
    /\ [][\A i \in Entries :
            ( /\ i \in DOMAIN outcome'
              /\ outcome[i] = "pending"
              /\ outcome'[i] = "skipped" ) =>
                /\ cache' = cache
                /\ CachedPath(bundle[i]) \notin DOMAIN cache'
                /\ \E call \in calls' \ calls : call.entry = i]_vars

\* in a second build an asset that did not shrink in the first build was
\* compressed again and did not shrink again, while the cache holds entries
C33_Witness ==
    /\ builds = 2
    /\ cfg.cacheEnabled
    /\ cache # <<>>
    /\ \E i \in Entries :
          /\ outcome[i] = "skipped"
          /\ SeenBefore(i)
          /\ ~ShrunkBefore(i)
          /\ \E call \in calls : call.entry = i
          /\ CachedPath(bundle0[i]) \notin DOMAIN cache

\* C34: the record of an asset that transcoding renamed has the old name as
\* its originalPath and the new name, the `to` of the RenameEntry, as its
\* compressedPath
C34_RecordHasNewName ==
    \A k \in 1..Len(processedFiles) :
        \A r \in 1..Len(renameMap) :
            processedFiles[k].originalPath = renameMap[r].from =>
                processedFiles[k].compressedPath = renameMap[r].to

\* C35: the step from the end of the loop to the end of generateBundle, the
\* rewrite pass, leaves every asset whose source is not text as it is, and
\* leaves the whole bundle as it is when no RenameEntry was recorded
C35_RewriteSparesBinaries ==
    [][(phase = "processing" /\ phase' = "generated") =>
          /\ \A i \in Entries :
                (bundle[i].type = "asset" /\ bundle[i].source.kind # "text") =>
                    bundle'[i] = bundle[i]
          /\ renameMap = <<>> => bundle' = bundle]_vars

\* a build that renamed an asset has rewritten a text artifact, and its
\* bundle holds a binary asset that is no image
C35_Witness ==
    /\ phase = "generated"
    /\ renameMap # <<>>
    /\ \E i \in Entries : IsTextArtifact(bundle[i]) /\ bundle[i] # bundle0[i]
    /\ \E i \in Entries :
          /\ bundle[i].type = "asset"
          /\ bundle[i].source.kind # "text"
          /\ ~Qualifies(bundle0[i])
          /\ bundle[i] = bundle0[i]

\* the loop settles the entry it is at, and not by a failed read of the cache
SettlesFromCache(e) ==
    /\ InLoop
    /\ Qualifies(e)
    /\ CacheExists(e)
    /\ outcome[idx] = "pending"
    /\ idx \in DOMAIN outcome'
    /\ outcome'[idx] \notin {"pending", "readerror"}

\* the entry took the cached bytes and no backend was called for it
TookCached(e) ==
    /\ outcome'[idx] = "hit"
    /\ bundle'[idx].source = cache[CachedPath(e)]
    /\ calls' = calls

\* C28 as stated: whenever an entry exists at the path of the asset's key and
\* resolved extension and is read, the cached bytes become the asset's source
\* and no backend is called for the asset
C28_HitUnconditional ==
    [][SettlesFromCache(bundle[idx]) => TookCached(bundle[idx])]_vars

\* C28 amended: an entry at the path of the asset's key and resolved extension
\* is taken exactly when its bytes are not longer than the asset's bytes: then
\* the cached bytes become the asset's source and no backend is called for
\* the asset; a longer entry is passed over and the asset is compressed as
\* on a miss
C28_HitIfNotLonger ==
    [][SettlesFromCache(bundle[idx]) =>
          IF cache[CachedPath(bundle[idx])].len <= bundle[idx].source.len
          THEN TookCached(bundle[idx])
          ELSE /\ outcome'[idx] \in {"replaced", "uncached", "skipped", "failed", "hung"}
               /\ \E call \in calls' : call.entry = idx]_vars

\* an asset of the first build took bytes that the cache directory held
\* before the build
C28_Witness ==
    /\ builds = 1
    /\ \E i \in Entries :
          /\ outcome[i] = "hit"
          /\ CachedPath(bundle0[i]) \in DOMAIN cache
          /\ bundle[i].source = cache[CachedPath(bundle0[i])]

----------------------------------------------------------------------------
(* Properties of the budget search. *)

ScDone == sc.pc \in {"returned", "thrown"}

\* C9: a smartCompress call makes at most 6 compression attempts
C9_AtMostSixAttempts == Len(sc.attempts) <= 6

\* no attempt of the run failed, and none met the target
Unreachable ==
    /\ sc.targetSize # 0
    /\ \A k \in 1..Len(sc.attempts) :
          sc.attempts[k].ok /\ sc.attempts[k].compressedSize > sc.targetSize

\* C10: when no attempt meets the target, the search does not throw (it
\* throws only when a compress call failed); it returns after 5 retries
\* the result of its last attempt, whose compressedSize exceeds the target
C10_UnreachableBudget ==
    /\ sc.pc = "thrown" => ~sc.attempts[Len(sc.attempts)].ok
    /\ (ScDone /\ Unreachable) =>
          /\ sc.pc = "returned"
          /\ sc.i = MaxRetries
          /\ sc.result = sc.attempts[Len(sc.attempts)]
          /\ sc.result.compressedSize > sc.targetSize

\* a search that returned after 5 retries without meeting the target
C10_Witness ==
    /\ sc.pc = "returned"
    /\ Unreachable
    /\ sc.i = MaxRetries

\* C11: the budget search fails only if every one of its compress attempts
\* failed; after an attempt that succeeded it returns a result
C11_FailsOnlyIfAllFail ==
    sc.pc = "thrown" => \A k \in 1..Len(sc.attempts) : ~sc.attempts[k].ok

----------------------------------------------------------------------------
(* Properties of the backends. *)

\* C15: compress tries its backends in a fixed order of priority, tries the
\* next one only after the one before threw, returns the result of the first
\* backend that succeeds, and throws only when every backend has failed
\* (the codec when it is loaded, then the canvas)
C15_FallbackChain ==
    \A t \in Tasks :
        LET tr == tasks[t].tried
        IN /\ \A k \in 1..(Len(tr) - 1) :
                 /\ Priority(tr[k].backend) < Priority(tr[k + 1].backend)
                 /\ ~tr[k].ok
           /\ tasks[t].pc = "returned" => (tr # <<>> /\ tr[Len(tr)].ok)
           /\ tasks[t].pc = "thrown" =>
                 /\ \A k \in 1..Len(tr) : ~tr[k].ok
                 /\ tr # <<>> /\ tr[Len(tr)].backend = "canvas"
                 /\ tasks[t].wasmReady => tr[1].backend = "wasm"

\* the codec threw and the canvas delivered the result of the call
C15_Witness ==
    \E t \in Tasks :
        /\ tasks[t].pc = "returned"
        /\ tasks[t].tried = <<[backend |-> "wasm", ok |-> FALSE],
                              [backend |-> "canvas", ok |-> TRUE]>>

\* C16: the codec is loaded at most once, however many init and compress
\* calls are made on the instance and however they interleave
C16_LoadsOnce == rp.loads <= 1

----------------------------------------------------------------------------
(* Properties of the options. *)

\* the value of object.key that the documentation promises: the one given,
\* or the default of the key
Documented(given, default, key) ==
    IF given # {} /\ Has(Destructure(given, default), key)
    THEN Destructure(given, default)[key]
    ELSE default[key]

\* C21: every field of dev, build and cache that the user leaves out has
\* its documented default, also when the user gives the object without it
C21_FieldDefaults ==
    options.created =>
        /\ \A key \in DOMAIN DefaultDev :
              /\ Has(options.dev, key)
              /\ options.dev[key] = Documented(options.given.dev, DefaultDev, key)
        /\ \A key \in DOMAIN DefaultBuild :
              /\ Has(options.build, key)
              /\ options.build[key] = Documented(options.given.build, DefaultBuild, key)
        /\ \A key \in DOMAIN DefaultCache :
              /\ Has(options.cache, key)
              /\ options.cache[key] = Documented(options.given.cache, DefaultCache, key)

----------------------------------------------------------------------------
(* Properties of the webpack plugin. *)

\* C22: with a format other than 'auto', an asset of another extension that
\* the webpack plugin updates holds bytes of the configured format and has
\* the name of that format
C22_WebpackTranscodes ==
    \A i \in 1..Len(wp.status) :
        ( /\ wp.format # "auto"
          /\ wp.status[i] = "updated"
          /\ OriginalExt(wp.assets0[i].fileName) # wp.format ) =>
            /\ wp.assets[i].source.enc = wp.format
            /\ wp.assets[i].fileName = NewName(wp.assets0[i].fileName, wp.format)

\* C32: the webpack plugin updates an asset only with bytes strictly smaller
\* than the bytes it had, from the cache as from a fresh compression; an
\* asset whose result is not smaller or whose task failed keeps its bytes,
\* and no asset changes its name
C32_WebpackSizeGate ==
    \A i \in 1..Len(wp.status) :
        /\ wp.assets[i].fileName = wp.assets0[i].fileName
        /\ wp.status[i] = "updated" =>
              wp.assets[i].source.len < wp.assets0[i].source.len
        /\ wp.status[i] # "updated" => wp.assets[i] = wp.assets0[i]

\* a second compilation has ended in which one asset was updated from the
\* cache, one was kept though the cache held a result for it, and the task
\* of one failed
C32_Witness ==
    /\ wp.compilations = 2
    /\ wp.phase = "idle"
    /\ \E i, j, k \in 1..Len(wp.status) :
          /\ wp.status[i] = "updated"
          /\ WebpackCachePath(wp.format, wp.assets0[i]) \in DOMAIN wp.cache
          /\ wp.status[j] = "kept"
          /\ WebpackCachePath(wp.format, wp.assets0[j]) \in DOMAIN wp.cache
          /\ wp.status[k] = "failed"

\* C31: when no attempt met the target, the result the budget search returns
\* has the smallest compressedSize of all the attempts it made
C31_ReturnsSmallest ==
    (sc.pc = "returned" /\ Unreachable) =>
        \A k \in 1..Len(sc.attempts) :
            sc.result.compressedSize <= sc.attempts[k].compressedSize

\* smartCompress was called with a target size and made its first attempt
FirstAttemptMade ==
    /\ sc.size # 0
    /\ sc.targetSize # 0
    /\ Len(sc.attempts) >= 1

\* C30 as stated: with a target size, the first attempt of smartCompress has
\* quality 90 when targetSize / size >= 0.8, 75 when it is >= 0.5, 60 when it
\* is >= 0.3, and 45 otherwise, a ratio equal to a threshold being in the
\* upper band
C30_BandsInclusive ==
    FirstAttemptMade =>
        sc.attempts[1].quality =
            IF 10 * sc.targetSize >= 8 * sc.size THEN 90
            ELSE IF 10 * sc.targetSize >= 5 * sc.size THEN 75
            ELSE IF 10 * sc.targetSize >= 3 * sc.size THEN 60
            ELSE 45

\* C30 amended: with a target size, the first attempt of smartCompress has
\* quality 90 when targetSize / size > 0.8, 75 when it is > 0.5, 60 when it
\* is > 0.3, and 45 otherwise, a ratio equal to a threshold being in the
\* lower band
C30_BandsExclusive ==
    FirstAttemptMade =>
        sc.attempts[1].quality =
            IF 10 * sc.targetSize > 8 * sc.size THEN 90
            ELSE IF 10 * sc.targetSize > 5 * sc.size THEN 75
            ELSE IF 10 * sc.targetSize > 3 * sc.size THEN 60
            ELSE 45

\* an input whose target is exactly 0.8 of its size was first compressed at
\* quality 75
C30_Witness ==
    /\ FirstAttemptMade
    /\ 10 * sc.targetSize = 8 * sc.size
    /\ sc.attempts[1].quality = 75

----------------------------------------------------------------------------
(* Properties of iterativeCompress over every base quality. *)

----------------------------------------------------------------------------
(* Properties of compressBatch. *)

\* the indices of the files settled so far with the given outcome, in order
RECURSIVE SettledAs(_, _, _)
SettledAs(settled, ok, k) ==
    IF k > Len(settled) THEN <<>>
    ELSE IF settled[k] = ok THEN <<k>> \o SettledAs(settled, ok, k + 1)
         ELSE SettledAs(settled, ok, k + 1)

\* C36: compressBatch never aborts on a failing file; at most one file is
\* being compressed, the one after those settled; the results are those of
\* the files that succeeded, in input order, and the errors those of the
\* files that failed; on return the results and the errors together are as
\* many as the files; and the callback has seen completed = 0, 1, ..., n - 1
\* and at last n
C36_BatchInOrder ==
    /\ cb.pc # "thrown"
    /\ Len(cb.settled) = cb.i
    /\ cb.results = SettledAs(cb.settled, TRUE, 1)
    /\ cb.errors = SettledAs(cb.settled, FALSE, 1)
    /\ \A k \in 1..Len(cb.progress) :
          /\ cb.progress[k] = k - 1
          /\ k > 1 => cb.progress[k - 1] <= cb.progress[k]
    /\ cb.pc = "returned" =>
          /\ Len(cb.results) + Len(cb.errors) = cb.total
          /\ cb.onProgress => cb.progress = [k \in 1..(cb.total + 1) |-> k - 1]
          /\ ~cb.onProgress => cb.progress = <<>>

\* a batch with a callback has returned after a failing file that was
\* followed by a file that succeeded
C36_Witness ==
    /\ cb.pc = "returned"
    /\ cb.onProgress
    /\ cb.total >= 3
    /\ \E k \in 1..(cb.total - 1) : ~cb.settled[k] /\ cb.settled[k + 1]

----------------------------------------------------------------------------
(* Properties of compress of rusty-pic.js. *)

----------------------------------------------------------------------------
(* Properties of the memory bank. *)

\* every item written through remember is in what readAllMemory returned
ReadBackAll ==
    mb.pc = "listed" =>
        \A k \in 1..Len(mb.remembered) :
            \E j \in 1..Len(mb.all) : mb.all[j] = mb.remembered[k]

\* the filter of the query matches the scope, the session and the tags of
\* the item
FilterMatches(item, query) ==
    /\ query.scope # {} => item.scope \in query.scope
    /\ query.sessionId # "none" => item.sessionId = query.sessionId
    /\ query.tagsAny # {} => item.tags \cap query.tagsAny # {}

\* the remembered items that match and score higher than the item
HigherMatches(item, query) ==
    {k \in 1..Len(mb.remembered) :
        /\ FilterMatches(mb.remembered[k], query)
        /\ Greater(JaccardSimilarity(query.tokens, mb.remembered[k].tokens),
                   JaccardSimilarity(query.tokens, item.tokens))}

\* recall returned every remembered item that its filter matches and that
\* fewer matching items than the limit outscore
RecallFindsMatching ==
    mb.pc = "recalled" =>
        \A k \in 1..Len(mb.remembered) :
            ( /\ FilterMatches(mb.remembered[k], mb.query)
              /\ Cardinality(HigherMatches(mb.remembered[k], mb.query))
                    < BaseLimit(mb.query) ) =>
                \E j \in 1..Len(mb.recalled) : mb.recalled[j].item = mb.remembered[k]

\* recall returned no more than min(maxInject, filter.limit) items
RecallWithinLimit ==
    mb.pc = "recalled" => Len(mb.recalled) <= BaseLimit(mb.query)

\* recall returned its items in non-increasing order of score
RecallOrdered ==
    \A j \in 2..Len(mb.recalled) :
        ~Greater(mb.recalled[j].score, mb.recalled[j - 1].score)

\* C38: every item written through remember is returned by readAllMemory,
\* and by recall for a query whose filter matches it when fewer matching
\* items than the limit score higher; recall returns at most
\* min(maxInject, filter.limit) items, in non-increasing order of score
C38_MemoryRoundTrip ==
    /\ ReadBackAll
    /\ RecallFindsMatching
    /\ RecallWithinLimit
    /\ RecallOrdered

====
